---- MODULE Spec2Model ----
(***************************************************************************)
(* Model of src/github/utils.ts: the reviewer-state reconciler             *)
(* (parseReviewers), the commit-regrouping pass                            *)
(* (insertNewCommitsSinceReview) and the timeline normalizer               *)
(* (parseGraphQLTimelineEvents).                                           *)
(*                                                                         *)
(* Strings that the code compares or lower-cases are sequences of UTF-16   *)
(* code units (65 = 'A', 97 = 'a'), so that toLowerCase and the string     *)
(* operator < are computed, not assumed.                                   *)
(***************************************************************************)
EXTENDS Integers, Sequences, FiniteSets, Bags, TLC

VARIABLES
    prRequested,   \* parseReviewers: argument requestedReviewers
    prTimeline,    \* parseReviewers: argument timelineEvents
    prAuthor,      \* parseReviewers: argument author
    prResult,      \* parseReviewers: outcome of the call
    prPc,          \* "ready" before the call, "done" after it
    ncTimeline,    \* insertNewCommitsSinceReview: the array timelineEvents
    ncInput,       \* the content of that array when the call was made
    ncOid,         \* argument latestReviewCommitOid
    ncUser,        \* argument currentUser
    ncHead,        \* argument head
    ncPc,          \* "ready" before the call, "done" after it
    tlEvents,      \* parseGraphQLTimelineEvents: argument events
    tlResult,      \* the returned normalizedEvents
    tlPc,          \* "ready" before the call, "done" after it
    cmThread,      \* a raw GraphQL.ReviewThread (isResolved, comments.nodes)
    cmReviewAuthor,\* author of the raw GraphQL.SubmittedReview that holds the same comments
    cmIssueAuthor, \* author of a raw GraphQL.IssueComment
    cmThreadOut,   \* result of parseGraphQLReviewThread(cmThread)
    cmReviewOut,   \* result of parseGraphQLReviewEvent on that review
    cmIssueOut,    \* result of parseGraphQlIssueComment
    cmDone,        \* which of the three normalizers have been called
    mpText,        \* convertGraphQLEventType: argument text
    mpKind,        \* its result
    mpMergeability,     \* parseMergeability: argument mergeability
    mpMergeStateStatus, \* parseMergeability: argument mergeStateStatus
    mpParsed,      \* its result
    mpDone,        \* which of the two mappers have been called
    avCache,       \* enterpriseAvatarCache: cache key -> id of the fetch whose promise it holds, 0 for no entry
    avFetch,       \* every task handed to enterpriseAvatarQueue.add, in order: its key and status
    avQueue,       \* the ids of the tasks waiting in enterpriseAvatarQueue, oldest first
    avCall,        \* the bag of replaceAvatarUrl calls: position, user fields, awaited task
    rpPage,        \* restPaginate: the local page
    rpResults,     \* the local results
    rpRequests,    \* the page numbers request(...) was called with, in order
    rpResponses,   \* the responses that arrived, in order: data and headers.link
    rpPc,          \* "ready", "awaiting" a response, "returned" or "rejected"
    rpReturn       \* <<v>> once the call's promise is fulfilled with v, <<>> before and otherwise

prVars == <<prRequested, prTimeline, prAuthor, prResult, prPc>>

ncVars == <<ncTimeline, ncInput, ncOid, ncUser, ncHead, ncPc>>

tlVars == <<tlEvents, tlResult, tlPc>>

cmVars == <<cmThread, cmReviewAuthor, cmIssueAuthor, cmThreadOut, cmReviewOut,
            cmIssueOut, cmDone>>

mpVars == <<mpText, mpKind, mpMergeability, mpMergeStateStatus, mpParsed, mpDone>>

avVars == <<avCache, avFetch, avQueue, avCall>>

rpVars == <<rpPage, rpResults, rpRequests, rpResponses, rpPc, rpReturn>>

vars == <<prVars, ncVars, tlVars, cmVars, mpVars, avVars, rpVars>>

----------------------------------------------------------------------------
(* Bounds *)

MaxReviewTimeline == 3
MaxRequested == 2
MaxCommitTimeline == 5
MaxRawEvents == 3
MaxComments == 2
MaxCalls == 4
NumKeys == 4

MaxPages == 3

----------------------------------------------------------------------------
(* Strings *)

\* "B", "a", "ab"
Logins == {<<66>>, <<97>>, <<97, 98>>}

\* "A": lower-cases to the login "a", yet is a different identity
TeamNames == {<<65>>}

toLowerCaseUnit(c) == IF c >= 65 /\ c <= 90 THEN c + 32 ELSE c

toLowerCase(s) == [i \in DOMAIN s |-> toLowerCaseUnit(s[i])]

RECURSIVE StrLessFrom(_, _, _)
StrLessFrom(s, t, i) ==
    IF i > Len(t) THEN FALSE
    ELSE IF i > Len(s) THEN TRUE
    ELSE IF s[i] < t[i] THEN TRUE
    ELSE IF s[i] > t[i] THEN FALSE
    ELSE StrLessFrom(s, t, i + 1)

\* the operator < of two strings: lexicographic on code units
StrLess(s, t) == StrLessFrom(s, t, 1)

----------------------------------------------------------------------------
(* Reviewers *)

IAccount(l) == [kind |-> "account", login |-> l]

ITeam(n) == [kind |-> "team", name |-> n]

isTeam(r) == r.kind = "team"

reviewerId(r) == IF isTeam(r) THEN r.name ELSE r.login

reviewerLabel(r) == IF isTeam(r) THEN r.name ELSE r.login

Accounts == {IAccount(l) : l \in Logins}

Teams == {ITeam(n) : n \in TeamNames}

ReviewStates == {"APPROVED", "CHANGES_REQUESTED", "COMMENTED", "PENDING"}

ReviewEvent(u, s) == [event |-> "Reviewed", user |-> u, state |-> s]

CommentEvent(u) == [event |-> "Commented", user |-> u, state |-> "NONE"]

----------------------------------------------------------------------------
(* parseReviewers *)

\* the review events the scan looks at: Reviewed, state other than PENDING
reviewEvents_KeepPending(timelineEvents) ==
    SelectSeq(timelineEvents, LAMBDA e : e.event = "Reviewed")

reviewEvents(timelineEvents) ==
    SelectSeq(timelineEvents, LAMBDA e : e.event = "Reviewed" /\ e.state # "PENDING")

\* the map `seen` after seen.set(author.login, true): the set of its keys
seenInit_Empty(author) == {}

seenInit(author) == {author.login}

\* the loop for (i = reviewEvents.length - 1; i >= 0; i--), from index i
\* (1-based here) down, on the pair (seen, reviewers)
RECURSIVE scanReviews(_, _, _, _)
scanReviews(revs, i, seen, reviewers) ==
    IF i < 1 THEN [seen |-> seen, reviewers |-> reviewers]
    ELSE LET reviewer == revs[i].user
         IN  IF reviewer.login \notin seen
             THEN scanReviews(revs, i - 1, seen \cup {reviewer.login},
                      Append(reviewers, [reviewer |-> reviewer, state |-> revs[i].state]))
             ELSE scanReviews(revs, i - 1, seen, reviewers)

\* a scan that runs oldest-first
RECURSIVE scanReviewsForward(_, _, _, _)
scanReviewsForward(revs, i, seen, reviewers) ==
    IF i > Len(revs) THEN [seen |-> seen, reviewers |-> reviewers]
    ELSE LET reviewer == revs[i].user
         IN  IF reviewer.login \notin seen
             THEN scanReviewsForward(revs, i + 1, seen \cup {reviewer.login},
                      Append(reviewers, [reviewer |-> reviewer, state |-> revs[i].state]))
             ELSE scanReviewsForward(revs, i + 1, seen, reviewers)

scanAll_OldestFirst(revs, seen) == scanReviewsForward(revs, 1, seen, <<>>)

scanAll(revs, seen) == scanReviews(revs, Len(revs), seen, <<>>)

\* reviewers.find(r => reviewerId(r.reviewer) === reviewerId(request)):
\* the index of the first match, 0 for undefined
findReviewer(reviewers, request) ==
    LET hits == {k \in DOMAIN reviewers :
                    reviewerId(reviewers[k].reviewer) = reviewerId(request)}
    IN  IF hits = {} THEN 0 ELSE CHOOSE k \in hits : \A h \in hits : k <= h

\* one call of the requestedReviewers.forEach callback; acc.threw is set
\* when reviewer!.state is assigned on an undefined reviewer (TypeError)
applyRequest_NoOverride(acc, request, seen) ==
    IF acc.threw THEN acc
    ELSE IF reviewerId(request) \notin seen
         THEN [acc EXCEPT !.reviewers =
                  Append(@, [reviewer |-> request, state |-> "REQUESTED"])]
         ELSE IF findReviewer(acc.reviewers, request) = 0
              THEN [acc EXCEPT !.threw = TRUE]
              ELSE acc

applyRequest(acc, request, seen) ==
    IF acc.threw THEN acc
    ELSE IF reviewerId(request) \notin seen
         THEN [acc EXCEPT !.reviewers =
                  Append(@, [reviewer |-> request, state |-> "REQUESTED"])]
         ELSE LET k == findReviewer(acc.reviewers, request)
              IN  IF k = 0
                  THEN [acc EXCEPT !.threw = TRUE]
                  ELSE [acc EXCEPT !.reviewers[k].state = "REQUESTED"]

RECURSIVE applyRequests(_, _, _, _)
applyRequests(acc, requestedReviewers, j, seen) ==
    IF j > Len(requestedReviewers) THEN acc
    ELSE applyRequests(applyRequest(acc, requestedReviewers[j], seen),
                       requestedReviewers, j + 1, seen)

\* the comparator handed to reviewers.sort
compareReviewers_CaseSensitive(a, b) ==
    IF a.state = "REQUESTED" /\ b.state # "REQUESTED" THEN 1
    ELSE IF b.state = "REQUESTED" /\ a.state # "REQUESTED" THEN -1
    ELSE IF StrLess(reviewerLabel(a.reviewer), reviewerLabel(b.reviewer))
         THEN -1 ELSE 1

compareReviewers(a, b) ==
    IF a.state = "REQUESTED" /\ b.state # "REQUESTED" THEN 1
    ELSE IF b.state = "REQUESTED" /\ a.state # "REQUESTED" THEN -1
    ELSE IF StrLess(toLowerCase(reviewerLabel(a.reviewer)),
                    toLowerCase(reviewerLabel(b.reviewer)))
         THEN -1 ELSE 1

\* Array.prototype.sort with that comparator, as an insertion sort (what the
\* engine runs on short arrays): x moves left past every element that
\* compares greater than x
RECURSIVE insertSorted(_, _, _)
insertSorted(sorted, x, j) ==
    IF j >= 1 /\ compareReviewers(sorted[j], x) > 0
    THEN insertSorted(sorted, x, j - 1)
    ELSE SubSeq(sorted, 1, j) \o <<x>> \o SubSeq(sorted, j + 1, Len(sorted))

RECURSIVE sortFrom(_, _, _)
sortFrom(sorted, list, k) ==
    IF k > Len(list) THEN sorted
    ELSE sortFrom(insertSorted(sorted, list[k], Len(sorted)), list, k + 1)

sortReviewers(list) == sortFrom(<<>>, list, 1)

\* the whole function: status "threw" when the forEach callback raised
parseReviewers(requestedReviewers, timelineEvents, author) ==
    LET revs    == reviewEvents(timelineEvents)
        seen0   == seenInit(author)
        scanned == scanAll(revs, seen0)
        acc     == applyRequests([threw |-> FALSE, reviewers |-> scanned.reviewers],
                                 requestedReviewers, 1, scanned.seen)
    IN  IF acc.threw
        THEN [status |-> "threw", value |-> <<>>]
        ELSE [status |-> "returned", value |-> sortReviewers(acc.reviewers)]

----------------------------------------------------------------------------
(* Inputs of parseReviewers *)

RECURSIVE SeqsUpTo(_, _)
SeqsUpTo(S, n) ==
    IF n = 0 THEN {<<>>}
    ELSE LET shorter == SeqsUpTo(S, n - 1)
         IN  shorter \cup {Append(q, x) : q \in {p \in shorter : Len(p) = n - 1}, x \in S}

ReviewTimelineEvents ==
    {ReviewEvent(u, s) : u \in Accounts, s \in ReviewStates}
        \cup {CommentEvent(u) : u \in {IAccount(<<97>>)}}

NoResult == [status |-> "none", value |-> <<>>]

PrIdle ==
    /\ prRequested = <<>>
    /\ prTimeline = <<>>
    /\ prAuthor = IAccount(<<97>>)
    /\ prResult = NoResult
    /\ prPc = "idle"

\* head is null or a ref, of which only sha is read
NullRef == [isNull |-> TRUE, sha |-> ""]

GitHubRef(sha) == [isNull |-> FALSE, sha |-> sha]

NcIdle ==
    /\ ncTimeline = <<>>
    /\ ncInput = <<>>
    /\ ncOid = "undefined"
    /\ ncUser = "U"
    /\ ncHead = NullRef
    /\ ncPc = "idle"

TlIdle ==
    /\ tlEvents = <<>>
    /\ tlResult = <<>>
    /\ tlPc = "idle"

CmIdle ==
    /\ cmThread = [isResolved |-> FALSE, comments |-> <<>>]
    /\ cmReviewAuthor = [isNull |-> TRUE, login |-> "", url |-> "", avatarUrl |-> "", email |-> ""]
    /\ cmIssueAuthor = [isNull |-> TRUE, login |-> "", url |-> "", avatarUrl |-> "", email |-> ""]
    /\ cmThreadOut = <<>>
    /\ cmReviewOut = <<>>
    /\ cmIssueOut = <<>>
    /\ cmDone = {}

MpIdle ==
    /\ mpText = ""
    /\ mpKind = "none"
    /\ mpMergeability = "UNKNOWN"
    /\ mpMergeStateStatus = "UNKNOWN"
    /\ mpParsed = "none"
    /\ mpDone = {}

AvIdle ==
    /\ avCache = <<>>
    /\ avFetch = <<>>
    /\ avQueue = <<>>
    /\ avCall = <<>>

RpIdle ==
    /\ rpPage = 1
    /\ rpResults = <<>>
    /\ rpRequests = <<>>
    /\ rpResponses = <<>>
    /\ rpPc = "idle"
    /\ rpReturn = <<>>

InitReviewers ==
    /\ NcIdle
    /\ TlIdle
    /\ CmIdle
    /\ MpIdle
    /\ AvIdle
    /\ RpIdle
    /\ prRequested \in SeqsUpTo(Accounts \cup Teams, MaxRequested)
    /\ prTimeline \in SeqsUpTo(ReviewTimelineEvents, MaxReviewTimeline)
    /\ prAuthor \in Accounts
    /\ prResult = NoResult
    /\ prPc = "ready"

ParseReviewersCall ==
    /\ prPc = "ready"
    /\ prResult' = parseReviewers(prRequested, prTimeline, prAuthor)
    /\ prPc' = "done"
    /\ UNCHANGED <<prRequested, prTimeline, prAuthor>>
    /\ UNCHANGED <<ncVars, tlVars, cmVars, mpVars, avVars, rpVars>>

NextReviewers == ParseReviewersCall

SpecReviewers == InitReviewers /\ [][NextReviewers]_vars

----------------------------------------------------------------------------
(* Properties of parseReviewers, under SpecReviewers *)

Returned == prPc = "done" /\ prResult.status = "returned"

\* the indices of the non-PENDING Reviewed events of login l in the input
ReviewIndices(l) ==
    {i \in DOMAIN prTimeline :
        /\ prTimeline[i].event = "Reviewed"
        /\ prTimeline[i].state # "PENDING"
        /\ prTimeline[i].user.login = l}

MaxOf(S) == CHOOSE m \in S : \A x \in S : x <= m

IsRequested(r) == \E j \in DOMAIN prRequested : reviewerId(prRequested[j]) = reviewerId(r)

\* C1: when parseReviewers returns, every account that is neither the author
\* nor requested and has a non-PENDING review has an entry whose state is the
\* state of its most recent (highest-index) non-PENDING review.
C1_MostRecentReviewState ==
    Returned =>
        \A R \in Accounts :
            (R.login # prAuthor.login /\ ~IsRequested(R) /\ ReviewIndices(R.login) # {})
                => \E k \in DOMAIN prResult.value :
                      /\ prResult.value[k].reviewer = R
                      /\ prResult.value[k].state =
                             prTimeline[MaxOf(ReviewIndices(R.login))].state

\* a reviewer with an older review of another state and a still newer PENDING one
C1_Witness ==
    /\ Returned
    /\ \E R \in Accounts :
          /\ R.login # prAuthor.login /\ ~IsRequested(R)
          /\ \E i, j \in ReviewIndices(R.login) :
                i < j /\ prTimeline[i].state # prTimeline[j].state
          /\ \E p \in DOMAIN prTimeline :
                /\ prTimeline[p].event = "Reviewed" /\ prTimeline[p].state = "PENDING"
                /\ prTimeline[p].user = R
                /\ p > MaxOf(ReviewIndices(R.login))
          /\ \E k \in DOMAIN prResult.value : prResult.value[k].reviewer = R

ExampleRequested == <<IAccount(<<97>>), IAccount(<<66>>)>>

ExampleTimeline ==
    <<ReviewEvent(IAccount(<<66>>), "APPROVED"),
      ReviewEvent(IAccount(<<97>>), "CHANGES_REQUESTED"),
      ReviewEvent(IAccount(<<66>>), "COMMENTED")>>

IsExample ==
    /\ prRequested = ExampleRequested
    /\ prTimeline = ExampleTimeline
    /\ prAuthor = IAccount(<<97, 98>>)

\* C2: when parseReviewers returns, every requested reviewer or team has an
\* entry with state REQUESTED, reviewed before or not; requested [a, B] with
\* reviews [B:APPROVED, a:CHANGES_REQUESTED, B:COMMENTED] and author ab gives
\* exactly a:REQUESTED, B:REQUESTED.
C2_RequestedOverrides ==
    Returned =>
        /\ \A j \in DOMAIN prRequested :
              \E k \in DOMAIN prResult.value :
                 /\ reviewerId(prResult.value[k].reviewer) = reviewerId(prRequested[j])
                 /\ prResult.value[k].state = "REQUESTED"
        /\ IsExample =>
              prResult.value = <<[reviewer |-> IAccount(<<97>>), state |-> "REQUESTED"],
                                 [reviewer |-> IAccount(<<66>>), state |-> "REQUESTED"]>>

C2_Witness == Returned /\ IsExample

\* C3: no entry of the output has the author as its reviewer.
C3_AuthorNeverListed ==
    prPc = "done" =>
        \A k \in DOMAIN prResult.value :
            ~(/\ ~isTeam(prResult.value[k].reviewer)
              /\ prResult.value[k].reviewer.login = prAuthor.login)

\* the author reviewed, and the output has entries of others
C3_Witness ==
    /\ Returned
    /\ ReviewIndices(prAuthor.login) # {}
    /\ Len(prResult.value) >= 2

\* C4: the output holds at most one entry per reviewer identity.
C4_OneEntryPerIdentity ==
    prPc = "done" =>
        \A k1, k2 \in DOMAIN prResult.value :
            reviewerId(prResult.value[k1].reviewer) = reviewerId(prResult.value[k2].reviewer)
                => k1 = k2

LabelKey(e) == toLowerCase(reviewerLabel(e.reviewer))

\* C5: in the returned list the entries that are not REQUESTED precede the
\* REQUESTED ones, and each group ascends by lower-cased label.
C5_SortedOutput ==
    Returned =>
        \A k1, k2 \in DOMAIN prResult.value :
            k1 < k2 =>
                /\ ~(prResult.value[k1].state = "REQUESTED" /\ prResult.value[k2].state # "REQUESTED")
                /\ ((prResult.value[k1].state = "REQUESTED") = (prResult.value[k2].state = "REQUESTED"))
                      => ~StrLess(LabelKey(prResult.value[k2]), LabelKey(prResult.value[k1]))

\* both groups are present, and the completed group holds an upper-case
\* label that code-unit order would put first
C5_Witness ==
    /\ Returned
    /\ Len(prResult.value) = 3
    /\ prResult.value[1].state # "REQUESTED" /\ prResult.value[2].state # "REQUESTED"
    /\ prResult.value[3].state = "REQUESTED"
    /\ prResult.value[1].reviewer = IAccount(<<97>>)
    /\ prResult.value[2].reviewer = IAccount(<<66>>)

\* C6: parseReviewers returns a list for every input and never throws.
C6_NeverThrows == prPc = "done" => prResult.status = "returned"

----------------------------------------------------------------------------
(* insertNewCommitsSinceReview *)

Shas == {"X", "Y"}

CommitEvent(id, sha) ==
    [event |-> "Committed", id |-> id, sha |-> sha, user |-> [login |-> ""]]

ViewerReviewEvent(id, login) ==
    [event |-> "Reviewed", id |-> id, sha |-> "", user |-> [login |-> login]]

IssueCommentEvent(id) ==
    [event |-> "Commented", id |-> id, sha |-> "", user |-> [login |-> ""]]

\* the synthetic marker { id: latestReviewCommitOid, event: NewCommitsSinceReview }
NewCommitsSinceReviewEvent(oid) ==
    [event |-> "NewCommitsSinceReview", id |-> oid, sha |-> "", user |-> [login |-> ""]]

\* latestReviewCommitOid && head && head.sha !== latestReviewCommitOid
regroupGuard_IgnoreHeadSha(oid, head) ==
    oid # "undefined" /\ oid # "" /\ ~head.isNull

regroupGuard(oid, head) ==
    /\ oid # "undefined" /\ oid # ""
    /\ ~head.isNull
    /\ head.sha # oid

\* timelineEvents.splice(start, 0, ...items) with the JS index start = k,
\* clamped to the length: items go in after the first k elements
spliceIn(t, k, items) ==
    LET c == IF k > Len(t) THEN Len(t) ELSE k
    IN  SubSeq(t, 1, c) \o items \o SubSeq(t, c + 1, Len(t))

\* a removal that leaves the array as it is
spliceOut_Keep(t, p) == t

\* timelineEvents.splice(i, 1) at the 1-based position p
spliceOut(t, p) == SubSeq(t, 1, p - 1) \o SubSeq(t, p + 1, Len(t))

\* the loop for (i = length - 1; i > 0; i--) from the 1-based position p = i + 1
\* down to 2; last is lastViewerReviewIndex + 1 (1-based position of the
\* recorded review), so the JS splice index lastViewerReviewIndex + 1 is last
RECURSIVE regroupLoop(_, _, _, _, _, _, _)
regroupLoop(t, p, last, comittedDuringReview, interReviewCommits, oid, currentUser) ==
    IF p < 2 THEN t
    ELSE IF t[p].event = "Committed" /\ t[p].sha = oid
         THEN spliceIn(t, last, <<NewCommitsSinceReviewEvent(oid)>> \o interReviewCommits)
    ELSE IF comittedDuringReview /\ t[p].event = "Committed"
         THEN regroupLoop(spliceOut(t, p), p - 1, last, comittedDuringReview,
                          <<t[p]>> \o interReviewCommits, oid, currentUser)
    ELSE IF ~comittedDuringReview /\ t[p].event = "Reviewed" /\ t[p].user.login = currentUser
         THEN regroupLoop(t, p - 1, p, TRUE, interReviewCommits, oid, currentUser)
    ELSE regroupLoop(t, p - 1, last, comittedDuringReview, interReviewCommits, oid, currentUser)

\* a loop that runs down to i = 0
RECURSIVE regroupLoopToZero(_, _, _, _, _, _, _)
regroupLoopToZero(t, p, last, comittedDuringReview, interReviewCommits, oid, currentUser) ==
    IF p < 1 THEN t
    ELSE IF t[p].event = "Committed" /\ t[p].sha = oid
         THEN spliceIn(t, last, <<NewCommitsSinceReviewEvent(oid)>> \o interReviewCommits)
    ELSE IF comittedDuringReview /\ t[p].event = "Committed"
         THEN regroupLoopToZero(spliceOut(t, p), p - 1, last, comittedDuringReview,
                                <<t[p]>> \o interReviewCommits, oid, currentUser)
    ELSE IF ~comittedDuringReview /\ t[p].event = "Reviewed" /\ t[p].user.login = currentUser
         THEN regroupLoopToZero(t, p - 1, p, TRUE, interReviewCommits, oid, currentUser)
    ELSE regroupLoopToZero(t, p - 1, last, comittedDuringReview, interReviewCommits, oid, currentUser)

insertNewCommitsSinceReview_ScanIndexZero(timelineEvents, latestReviewCommitOid, currentUser, head) ==
    IF regroupGuard(latestReviewCommitOid, head)
    THEN regroupLoopToZero(timelineEvents, Len(timelineEvents), Len(timelineEvents),
                           FALSE, <<>>, latestReviewCommitOid, currentUser)
    ELSE timelineEvents

\* the content of the array after the call
insertNewCommitsSinceReview(timelineEvents, latestReviewCommitOid, currentUser, head) ==
    IF regroupGuard(latestReviewCommitOid, head)
    THEN regroupLoop(timelineEvents, Len(timelineEvents), Len(timelineEvents),
                     FALSE, <<>>, latestReviewCommitOid, currentUser)
    ELSE timelineEvents

\* Inputs: timelines whose events carry their position as id
EventShapes ==
    {[event |-> "Committed", key |-> s] : s \in Shas}
        \cup {[event |-> "Reviewed", key |-> u] : u \in {"U", "V"}}
        \cup {[event |-> "Commented", key |-> ""]}

MakeEvent(shape, i) ==
    IF shape.event = "Committed" THEN CommitEvent(ToString(i), shape.key)
    ELSE IF shape.event = "Reviewed" THEN ViewerReviewEvent(ToString(i), shape.key)
    ELSE IssueCommentEvent(ToString(i))

MakeTimeline(shapes) == [i \in DOMAIN shapes |-> MakeEvent(shapes[i], i)]

InitCommits ==
    /\ PrIdle
    /\ AvIdle
    /\ RpIdle
    /\ TlIdle
    /\ CmIdle
    /\ MpIdle
    /\ \E shapes \in SeqsUpTo(EventShapes, MaxCommitTimeline) :
          /\ ncTimeline = MakeTimeline(shapes)
          /\ ncInput = MakeTimeline(shapes)
    /\ ncOid \in {"undefined", "", "X", "Z"}
    /\ ncUser = "U"
    /\ ncHead \in {NullRef} \cup {GitHubRef(s) : s \in {"X", "H"}}
    /\ ncPc = "ready"

InsertNewCommitsCall ==
    /\ ncPc = "ready"
    /\ ncTimeline' = insertNewCommitsSinceReview(ncTimeline, ncOid, ncUser, ncHead)
    /\ ncPc' = "done"
    /\ UNCHANGED <<ncInput, ncOid, ncUser, ncHead>>
    /\ UNCHANGED <<prVars, tlVars, cmVars, mpVars, avVars, rpVars>>

NextCommits == InsertNewCommitsCall

SpecCommits == InitCommits /\ [][NextCommits]_vars

----------------------------------------------------------------------------
(* Properties of insertNewCommitsSinceReview, under SpecCommits *)

PreconditionsHold ==
    /\ ncOid # "undefined" /\ ncOid # ""
    /\ ~ncHead.isNull
    /\ ncHead.sha # ncOid

\* positions (1-based) of the input's Committed events at a JS index >= 1
\* whose sha is latestReviewCommitOid
MatchPositions ==
    {p \in 2..Len(ncInput) : ncInput[p].event = "Committed" /\ ncInput[p].sha = ncOid}

\* positions of the input's Reviewed events of the current user
ViewerReviews ==
    {p \in DOMAIN ncInput : ncInput[p].event = "Reviewed" /\ ncInput[p].user.login = ncUser}

PositionIn(t, e) == CHOOSE q \in DOMAIN t : t[q] = e

Marker == NewCommitsSinceReviewEvent(ncOid)

\* the input's Committed events that were before the review at input position
\* r and are after it in the result, in input order
MovedAcross(r) ==
    SelectSeq(ncInput,
        LAMBDA e : /\ e.event = "Committed"
                   /\ \E q \in DOMAIN ncTimeline : ncTimeline[q] = e
                   /\ PositionIn(ncInput, e) < r
                   /\ PositionIn(ncTimeline, e) > PositionIn(ncTimeline, ncInput[r]))

\* C7: when the preconditions hold and the captured commit is found, the
\* marker with id = latestReviewCommitOid comes immediately after the current
\* user's most recent Reviewed event and the relocated commits follow it
\* directly in their original relative order.
C7_MarkerRightAfterReview ==
    (ncPc = "done" /\ PreconditionsHold /\ MatchPositions # {} /\ ViewerReviews # {}) =>
        LET r     == MaxOf(ViewerReviews)
            q     == PositionIn(ncTimeline, ncInput[r])
            moved == MovedAcross(r)
        IN  /\ q + 1 + Len(moved) <= Len(ncTimeline)
            /\ ncTimeline[q + 1] = Marker
            /\ SubSeq(ncTimeline, q + 2, q + 1 + Len(moved)) = moved

\* C8: the call leaves the array as it was whenever latestReviewCommitOid is
\* undefined or empty, head is null, or head.sha equals latestReviewCommitOid.
C8_NoOpWithoutPreconditions ==
    (ncPc = "done" /\ ~PreconditionsHold) => ncTimeline = ncInput

\* head.sha equals the captured sha, on a timeline the loop would regroup:
\* the captured commit, then a commit, then the viewer's review
C8_Witness ==
    /\ ncPc = "done"
    /\ ncOid = "X" /\ ~ncHead.isNull /\ ncHead.sha = "X"
    /\ \E m \in MatchPositions, r \in ViewerReviews :
          m < r /\ \E c \in (m + 1)..(r - 1) : ncInput[c].event = "Committed"
    /\ ncTimeline = ncInput

\* C9: when the preconditions hold and no Committed event at an index >= 1 has
\* the captured sha, the array holds afterwards what it held before, in the
\* same order.
C9_NotFoundIsNoOp ==
    (ncPc = "done" /\ PreconditionsHold /\ MatchPositions = {}) => ncTimeline = ncInput

MarkerCount(t) == Cardinality({q \in DOMAIN t : t[q].event = "NewCommitsSinceReview"})

\* C21: a call inserts exactly one marker when the preconditions hold and a
\* Committed event with the captured sha is at an index >= 1, and none
\* otherwise; the events up to the newest such commit stay where they are, the
\* event at index 0 stays at index 0, and a review that is at index 0 only is
\* not taken for the insertion point (the marker is appended at the end).
C21_ExactlyOneMarker ==
    ncPc = "done" =>
        /\ MarkerCount(ncTimeline) = IF PreconditionsHold /\ MatchPositions # {} THEN 1 ELSE 0
        /\ Len(ncInput) > 0 => Len(ncTimeline) > 0 /\ ncTimeline[1] = ncInput[1]
        /\ PreconditionsHold /\ MatchPositions # {} =>
              /\ SubSeq(ncTimeline, 1, MaxOf(MatchPositions))
                    = SubSeq(ncInput, 1, MaxOf(MatchPositions))
              /\ ViewerReviews \subseteq {1} => ncTimeline = Append(ncInput, Marker)

\* the captured sha is on the commit at index 0 and on two later commits, the
\* viewer's only review is at index 0, and one marker was inserted
C21_Witness ==
    /\ ncPc = "done"
    /\ PreconditionsHold
    /\ Len(ncInput) > 0 /\ ncInput[1].event = "Committed" /\ ncInput[1].sha = ncOid
    /\ Cardinality(MatchPositions) >= 2
    /\ MarkerCount(ncTimeline) = 1

\* the result without the marker
WithoutMarker == SelectSeq(ncTimeline, LAMBDA e : e.event # "NewCommitsSinceReview")

Elements(t) == {t[q] : q \in DOMAIN t}

\* the input's Committed events between the newest commit with the captured
\* sha and the viewer's most recent review
InterReview ==
    IF MatchPositions = {} \/ ViewerReviews = {} THEN {}
    ELSE {ncInput[p] : p \in {q \in (MaxOf(MatchPositions) + 1)..(MaxOf(ViewerReviews) - 1) :
                                  ncInput[q].event = "Committed"}}

\* C22: when the captured commit is found, the result without the marker
\* holds every input event once and nothing else, and the events other than
\* the commits between the matched commit and the viewer's most recent review
\* are in their input order.
C22_EventsConserved ==
    (ncPc = "done" /\ PreconditionsHold /\ MatchPositions # {}) =>
        /\ Len(WithoutMarker) = Len(ncInput)
        /\ Elements(WithoutMarker) = Elements(ncInput)
        /\ SelectSeq(WithoutMarker, LAMBDA e : e \notin InterReview)
              = SelectSeq(ncInput, LAMBDA e : e \notin InterReview)

\* two commits were taken out and put back after an event that followed the
\* review, so the order of the result differs from the input's
C22_Witness ==
    /\ ncPc = "done"
    /\ PreconditionsHold
    /\ MatchPositions # {}
    /\ Cardinality(InterReview) = 2
    /\ WithoutMarker # ncInput

----------------------------------------------------------------------------
(* parseGraphQLTimelineEvents *)

\* a classifier without the case 'HeadRefDeletedEvent'
convertGraphQLEventType_NoHeadRefDeleted(text) ==
    CASE text = "PullRequestCommit"   -> "Committed"
      [] text = "LabeledEvent"        -> "Labeled"
      [] text = "MilestonedEvent"     -> "Milestoned"
      [] text = "AssignedEvent"       -> "Assigned"
      [] text = "IssueComment"        -> "Commented"
      [] text = "PullRequestReview"   -> "Reviewed"
      [] text = "MergedEvent"         -> "Merged"
      [] OTHER                        -> "Other"

\* a classifier whose case 'LabeledEvent' returns the kind of the next case
convertGraphQLEventType_LabeledAsMilestoned(text) ==
    CASE text = "PullRequestCommit"   -> "Committed"
      [] text = "LabeledEvent"        -> "Milestoned"
      [] text = "MilestonedEvent"     -> "Milestoned"
      [] text = "AssignedEvent"       -> "Assigned"
      [] text = "HeadRefDeletedEvent" -> "HeadRefDeleted"
      [] text = "IssueComment"        -> "Commented"
      [] text = "PullRequestReview"   -> "Reviewed"
      [] text = "MergedEvent"         -> "Merged"
      [] OTHER                        -> "Other"

convertGraphQLEventType(text) ==
    CASE text = "PullRequestCommit"   -> "Committed"
      [] text = "LabeledEvent"        -> "Labeled"
      [] text = "MilestonedEvent"     -> "Milestoned"
      [] text = "AssignedEvent"       -> "Assigned"
      [] text = "HeadRefDeletedEvent" -> "HeadRefDeleted"
      [] text = "IssueComment"        -> "Commented"
      [] text = "PullRequestReview"   -> "Reviewed"
      [] text = "MergedEvent"         -> "Merged"
      [] OTHER                        -> "Other"

\* a raw author: null, or an account with its fields
NullActor == [isNull |-> TRUE, login |-> "", url |-> "", avatarUrl |-> "", email |-> ""]

RawActor(login) ==
    [isNull |-> FALSE, login |-> login, url |-> "u:" \o login,
     avatarUrl |-> "av:" \o login, email |-> "undefined"]

parseAuthor(author) ==
    IF ~author.isNull
    THEN [login |-> author.login, url |-> author.url,
          avatarUrl |-> author.avatarUrl, email |-> author.email]
    ELSE [login |-> "", url |-> "", avatarUrl |-> "undefined", email |-> "undefined"]

\* normalizedEvents.push(record)
pushEvent_Front(normalizedEvents, record) == <<record>> \o normalizedEvents

pushEvent(normalizedEvents, record) == Append(normalizedEvents, record)

\* the body of the for-of loop for one raw event: the switch on the kind
normalizeEvent(normalizedEvents, event) ==
    LET type == convertGraphQLEventType(event.typename)
    IN  CASE type = "Commented" ->
                pushEvent(normalizedEvents,
                    [event |-> type, user |-> parseAuthor(event.author),
                     id |-> event.databaseId, graphNodeId |-> event.id])
          [] type = "Reviewed" ->
                pushEvent(normalizedEvents,
                    [event |-> type, comments |-> <<>>, user |-> parseAuthor(event.author),
                     state |-> event.state, id |-> event.databaseId])
          [] type = "Committed" ->
                pushEvent(normalizedEvents,
                    [event |-> type, id |-> event.id, sha |-> event.oid,
                     author |-> IF ~event.author.isNull
                                THEN parseAuthor(event.author)
                                ELSE parseAuthor([isNull |-> FALSE, login |-> event.authorName,
                                                  avatarUrl |-> "av:" \o event.authorName,
                                                  email |-> event.authorName \o "@mail",
                                                  url |-> ""])])
          [] type = "Merged" ->
                pushEvent(normalizedEvents,
                    [event |-> type, id |-> event.id, user |-> parseAuthor(event.actor),
                     sha |-> event.oid, graphNodeId |-> event.id])
          [] type = "Assigned" ->
                pushEvent(normalizedEvents,
                    [event |-> type, id |-> event.id, user |-> parseAuthor(event.author),
                     actor |-> parseAuthor(event.actor)])
          [] type = "HeadRefDeleted" ->
                pushEvent(normalizedEvents,
                    [event |-> type, id |-> event.id, actor |-> parseAuthor(event.actor)])
          [] OTHER -> normalizedEvents

RECURSIVE normalizeFrom(_, _, _)
normalizeFrom(normalizedEvents, events, i) ==
    IF i > Len(events) THEN normalizedEvents
    ELSE normalizeFrom(normalizeEvent(normalizedEvents, events[i]), events, i + 1)

parseGraphQLTimelineEvents(events) == normalizeFrom(<<>>, events, 1)

\* Inputs: raw events; the node id of the i-th is i, its databaseId i + 100
TypeNames ==
    {"PullRequestCommit", "LabeledEvent", "MilestonedEvent", "AssignedEvent",
     "HeadRefDeletedEvent", "IssueComment", "PullRequestReview", "MergedEvent",
     "ClosedEvent"}

RawShapes == {[typename |-> t, who |-> w] : t \in TypeNames, w \in {NullActor, RawActor("a")}}

MakeRawEvent(shape, i) ==
    [typename |-> shape.typename, id |-> i, databaseId |-> i + 100,
     author |-> shape.who, actor |-> shape.who, authorName |-> "n",
     state |-> "APPROVED", oid |-> "X"]

MakeRawEvents(shapes) == [i \in DOMAIN shapes |-> MakeRawEvent(shapes[i], i)]

InitTimeline ==
    /\ PrIdle
    /\ AvIdle
    /\ RpIdle
    /\ NcIdle
    /\ CmIdle
    /\ MpIdle
    /\ \E shapes \in SeqsUpTo(RawShapes, MaxRawEvents) : tlEvents = MakeRawEvents(shapes)
    /\ tlResult = <<>>
    /\ tlPc = "ready"

ParseTimelineCall ==
    /\ tlPc = "ready"
    /\ tlResult' = parseGraphQLTimelineEvents(tlEvents)
    /\ tlPc' = "done"
    /\ UNCHANGED tlEvents
    /\ UNCHANGED <<prVars, ncVars, cmVars, mpVars, avVars, rpVars>>

NextTimeline == ParseTimelineCall

SpecTimeline == InitTimeline /\ [][NextTimeline]_vars

----------------------------------------------------------------------------
(* Properties of parseGraphQLTimelineEvents, under SpecTimeline *)

\* the position in the input of the raw event an output record was made of
Origin(record) ==
    IF record.event \in {"Commented", "Reviewed"} THEN record.id - 100 ELSE record.id

\* C10: the output records are in the order of the raw events they were made
\* of, and each is of the kind its raw event classifies as.
C10_InputOrderPreserved ==
    tlPc = "done" =>
        /\ \A k \in DOMAIN tlResult :
              /\ Origin(tlResult[k]) \in DOMAIN tlEvents
              /\ tlResult[k].event =
                     convertGraphQLEventType(tlEvents[Origin(tlResult[k])].typename)
        /\ \A k1, k2 \in DOMAIN tlResult :
              k1 < k2 => Origin(tlResult[k1]) < Origin(tlResult[k2])

\* three raw events of three kinds, each with an output record
C10_Witness ==
    /\ tlPc = "done"
    /\ Len(tlResult) = 3
    /\ tlResult[1].event # tlResult[2].event
    /\ tlResult[2].event # tlResult[3].event
    /\ tlResult[1].event # tlResult[3].event

\* the discriminators whose kind has a case in the switch of the normalizer
HandledTypeNames ==
    {"IssueComment", "PullRequestReview", "PullRequestCommit", "MergedEvent",
     "AssignedEvent", "HeadRefDeletedEvent"}

RecordsOf(i) == {k \in DOMAIN tlResult : Origin(tlResult[k]) = i}

\* C11 as claimed: every raw event, one classified Other, Labeled or
\* Milestoned included, produces exactly one record, so the output is as long
\* as the input.
C11_NoEventDropped ==
    tlPc = "done" =>
        /\ Len(tlResult) = Len(tlEvents)
        /\ \A i \in DOMAIN tlEvents : Cardinality(RecordsOf(i)) = 1

\* C11 amended: a raw event produces exactly one record when its discriminator
\* is one of the six handled ones and none otherwise (Other, Labeled and
\* Milestoned events are dropped); the output is as long as the number of
\* handled raw events.
C11_HandledEventsKept ==
    tlPc = "done" =>
        /\ \A i \in DOMAIN tlEvents :
              Cardinality(RecordsOf(i)) =
                  IF tlEvents[i].typename \in HandledTypeNames THEN 1 ELSE 0
        /\ Len(tlResult) =
              Cardinality({i \in DOMAIN tlEvents : tlEvents[i].typename \in HandledTypeNames})

\* an unknown, a labeled and a handled raw event in one input
C11_Witness ==
    /\ tlPc = "done"
    /\ \E i, j, h \in DOMAIN tlEvents :
          /\ tlEvents[i].typename = "ClosedEvent"
          /\ tlEvents[j].typename = "LabeledEvent"
          /\ tlEvents[h].typename = "HeadRefDeletedEvent"
    /\ Len(tlResult) = 1

----------------------------------------------------------------------------
(* parseGraphQLComment, parseGraphQLReviewThread, parseGraphQLReviewEvent,
   parseGraphQlIssueComment *)

\* the value undefined in the place of an account: every field reads undefined
UndefinedUser ==
    [login |-> "undefined", url |-> "undefined", avatarUrl |-> "undefined",
     email |-> "undefined"]

\* comment.author ? parseAuthor(comment.author) : undefined
commentUser(author) == IF ~author.isNull THEN parseAuthor(author) ELSE UndefinedUser

\* replyTo is the databaseId of the comment answered, 0 for a null replyTo, so
\* comment.replyTo && comment.replyTo.databaseId is falsy exactly when it is 0
parseGraphQLComment(comment, isResolved) ==
    [id          |-> comment.databaseId,
     user        |-> commentUser(comment.author),
     isDraft     |-> (comment.state = "PENDING"),
     inReplyToId |-> comment.replyTo,
     isResolved  |-> isResolved]

\* thread.comments.nodes.map(comment => parseGraphQLComment(comment, thread.isResolved))
threadComments(thread) ==
    [k \in DOMAIN thread.comments |-> parseGraphQLComment(thread.comments[k], thread.isResolved)]

parseGraphQLReviewThread(thread) ==
    [isResolved |-> thread.isResolved,
     comments   |-> threadComments(thread)]

parseGraphQlIssueComment(comment) ==
    [id |-> comment.databaseId, user |-> parseAuthor(comment.author), diffHunk |-> ""]

\* review.comments.nodes.map(comment => parseGraphQLComment(comment, false))
\*     .filter(c => !c.inReplyToId)
parseGraphQLReviewEvent(review) ==
    [event    |-> "Reviewed",
     comments |-> SelectSeq([k \in DOMAIN review.comments |->
                                parseGraphQLComment(review.comments[k], FALSE)],
                            LAMBDA c : c.inReplyToId = 0),
     user     |-> parseAuthor(review.author),
     state    |-> review.state,
     id       |-> review.databaseId]

\* Inputs: raw review comments; the databaseId of the k-th is k, replyTo is
\* the databaseId it answers (0 for none)
RawCommentShapes ==
    {[author |-> a, state |-> st, isReply |-> r] :
        a \in {NullActor, RawActor("a")}, st \in {"PENDING", "SUBMITTED"}, r \in BOOLEAN}

MakeRawComment(shape, k) ==
    [databaseId |-> k, author |-> shape.author, state |-> shape.state,
     replyTo |-> IF shape.isReply /\ k > 1 THEN k - 1 ELSE 0]

MakeRawComments(shapes) == [k \in DOMAIN shapes |-> MakeRawComment(shapes[k], k)]

\* the submitted review that holds the comments of the thread
RawReview == [databaseId |-> 1, author |-> cmReviewAuthor, state |-> "COMMENTED",
              comments |-> cmThread.comments]

RawIssueComment == [databaseId |-> 1, author |-> cmIssueAuthor]

InitComments ==
    /\ PrIdle
    /\ AvIdle
    /\ RpIdle
    /\ NcIdle
    /\ TlIdle
    /\ MpIdle
    /\ \E shapes \in SeqsUpTo(RawCommentShapes, MaxComments), r \in BOOLEAN :
          cmThread = [isResolved |-> r, comments |-> MakeRawComments(shapes)]
    /\ cmReviewAuthor \in {NullActor, RawActor("a")}
    /\ cmIssueAuthor \in {NullActor, RawActor("a")}
    /\ cmThreadOut = <<>>
    /\ cmReviewOut = <<>>
    /\ cmIssueOut = <<>>
    /\ cmDone = {}

ParseReviewThreadCall ==
    /\ "thread" \notin cmDone
    /\ cmThreadOut' = parseGraphQLReviewThread(cmThread)
    /\ cmDone' = cmDone \cup {"thread"}
    /\ UNCHANGED <<cmThread, cmReviewAuthor, cmIssueAuthor, cmReviewOut, cmIssueOut>>
    /\ UNCHANGED <<prVars, ncVars, tlVars, mpVars, avVars, rpVars>>

ParseReviewEventCall ==
    /\ "review" \notin cmDone
    /\ cmReviewOut' = parseGraphQLReviewEvent(RawReview)
    /\ cmDone' = cmDone \cup {"review"}
    /\ UNCHANGED <<cmThread, cmReviewAuthor, cmIssueAuthor, cmThreadOut, cmIssueOut>>
    /\ UNCHANGED <<prVars, ncVars, tlVars, mpVars, avVars, rpVars>>

ParseIssueCommentCall ==
    /\ "issue" \notin cmDone
    /\ cmIssueOut' = parseGraphQlIssueComment(RawIssueComment)
    /\ cmDone' = cmDone \cup {"issue"}
    /\ UNCHANGED <<cmThread, cmReviewAuthor, cmIssueAuthor, cmThreadOut, cmReviewOut>>
    /\ UNCHANGED <<prVars, ncVars, tlVars, mpVars, avVars, rpVars>>

NextComments == ParseReviewThreadCall \/ ParseReviewEventCall \/ ParseIssueCommentCall

SpecComments == InitComments /\ [][NextComments]_vars

----------------------------------------------------------------------------
(* Properties of the comment normalizers, under SpecComments *)

IsGhost(user) == user.login = "" /\ user.url = ""

\* the raw comment a normalized comment was made of
RawOf(c) == cmThread.comments[c.id]

UserNormalized(c) ==
    /\ c.user # UndefinedUser
    /\ RawOf(c).author.isNull => IsGhost(c.user)

\* C12: no normalizer outputs a null or undefined user, and a comment, review
\* or issue comment whose raw author is null has the ghost account (login "",
\* url "") as its user.
C12_GhostForMissingAuthor ==
    /\ "thread" \in cmDone =>
          \A k \in DOMAIN cmThreadOut.comments : UserNormalized(cmThreadOut.comments[k])
    /\ "review" \in cmDone =>
          /\ \A k \in DOMAIN cmReviewOut.comments : UserNormalized(cmReviewOut.comments[k])
          /\ cmReviewOut.user # UndefinedUser
          /\ cmReviewAuthor.isNull => IsGhost(cmReviewOut.user)
    /\ "issue" \in cmDone =>
          /\ cmIssueOut.user # UndefinedUser
          /\ cmIssueAuthor.isNull => IsGhost(cmIssueOut.user)

\* C20: every comment of a normalized thread has the thread's isResolved, and
\* a raw comment has the same isResolved through parseGraphQLReviewEvent as
\* through its thread.
C20_IsResolvedInherited ==
    /\ "thread" \in cmDone =>
          \A k \in DOMAIN cmThreadOut.comments :
              cmThreadOut.comments[k].isResolved = cmThread.isResolved
    /\ {"thread", "review"} \subseteq cmDone =>
          \A k \in DOMAIN cmReviewOut.comments :
              \A j \in DOMAIN cmThreadOut.comments :
                  cmThreadOut.comments[j].id = cmReviewOut.comments[k].id
                      => cmThreadOut.comments[j].isResolved = cmReviewOut.comments[k].isResolved

----------------------------------------------------------------------------
(* convertGraphQLEventType and parseMergeability as called on single values *)

\* the first switch of parseMergeability
baseMergeability(mergeability) ==
    CASE mergeability = "UNKNOWN"     -> "Unknown"
      [] mergeability = "MERGEABLE"   -> "Mergeable"
      [] mergeability = "CONFLICTING" -> "Conflict"

\* without the test parsed !== PullRequestMergeability.Conflict
parseMergeability_StatusFirst(mergeability, mergeStateStatus) ==
    IF mergeStateStatus = "BLOCKED" THEN "NotMergeable"
    ELSE IF mergeStateStatus = "BEHIND" THEN "Behind"
    ELSE baseMergeability(mergeability)

parseMergeability(mergeability, mergeStateStatus) ==
    LET parsed == baseMergeability(mergeability)
    IN  IF parsed # "Conflict"
        THEN IF mergeStateStatus = "BLOCKED" THEN "NotMergeable"
             ELSE IF mergeStateStatus = "BEHIND" THEN "Behind"
             ELSE parsed
        ELSE parsed

\* discriminators: the eight of the switch, and strings that are none of them
Discriminators ==
    TypeNames \cup {"NewCommitsSinceReview", "Other", "pullrequestcommit", ""}

Mergeabilities == {"UNKNOWN", "MERGEABLE", "CONFLICTING"}

MergeStateStatuses ==
    {"BEHIND", "BLOCKED", "CLEAN", "DIRTY", "HAS_HOOKS", "UNKNOWN", "UNSTABLE"}

InitMappers ==
    /\ PrIdle
    /\ AvIdle
    /\ RpIdle
    /\ NcIdle
    /\ TlIdle
    /\ CmIdle
    /\ mpText \in Discriminators
    /\ mpKind = "none"
    /\ mpMergeability \in Mergeabilities
    /\ mpMergeStateStatus \in MergeStateStatuses
    /\ mpParsed = "none"
    /\ mpDone = {}

ConvertEventTypeCall ==
    /\ "convert" \notin mpDone
    /\ mpKind' = convertGraphQLEventType(mpText)
    /\ mpDone' = mpDone \cup {"convert"}
    /\ UNCHANGED <<mpText, mpMergeability, mpMergeStateStatus, mpParsed>>
    /\ UNCHANGED <<prVars, ncVars, tlVars, cmVars, avVars, rpVars>>

ParseMergeabilityCall ==
    /\ "mergeability" \notin mpDone
    /\ mpParsed' = parseMergeability(mpMergeability, mpMergeStateStatus)
    /\ mpDone' = mpDone \cup {"mergeability"}
    /\ UNCHANGED <<mpText, mpKind, mpMergeability, mpMergeStateStatus>>
    /\ UNCHANGED <<prVars, ncVars, tlVars, cmVars, avVars, rpVars>>

NextMappers == ConvertEventTypeCall \/ ParseMergeabilityCall

SpecMappers == InitMappers /\ [][NextMappers]_vars

----------------------------------------------------------------------------
(* Properties of the mappers, under SpecMappers *)

KnownKinds ==
    [t \in {"PullRequestCommit", "LabeledEvent", "MilestonedEvent", "AssignedEvent",
            "HeadRefDeletedEvent", "IssueComment", "PullRequestReview", "MergedEvent"} |->
        IF t = "PullRequestCommit" THEN "Committed"
        ELSE IF t = "LabeledEvent" THEN "Labeled"
        ELSE IF t = "MilestonedEvent" THEN "Milestoned"
        ELSE IF t = "AssignedEvent" THEN "Assigned"
        ELSE IF t = "HeadRefDeletedEvent" THEN "HeadRefDeleted"
        ELSE IF t = "IssueComment" THEN "Commented"
        ELSE IF t = "PullRequestReview" THEN "Reviewed"
        ELSE "Merged"]

\* C13: each of the eight known discriminators maps to its own kind, every
\* other string maps to Other, and no string maps to NewCommitsSinceReview.
C13_ClassifierTotal ==
    "convert" \in mpDone =>
        /\ mpText \in DOMAIN KnownKinds => mpKind = KnownKinds[mpText]
        /\ mpText \notin DOMAIN KnownKinds => mpKind = "Other"
        /\ mpKind # "NewCommitsSinceReview"

\* the name of the synthetic kind itself, handed in as a discriminator
C13_Witness ==
    /\ "convert" \in mpDone
    /\ mpText = "NewCommitsSinceReview"
    /\ mpKind = "Other"

\* C14: the base value is Unknown / Mergeable / Conflict; Conflict stays
\* Conflict whatever the status; otherwise BLOCKED gives NotMergeable, BEHIND
\* gives Behind and any other status the base value.
C14_MergeabilityTable ==
    "mergeability" \in mpDone =>
        LET base == IF mpMergeability = "UNKNOWN" THEN "Unknown"
                    ELSE IF mpMergeability = "MERGEABLE" THEN "Mergeable"
                    ELSE "Conflict"
        IN  /\ base = "Conflict" => mpParsed = "Conflict"
            /\ (base # "Conflict" /\ mpMergeStateStatus = "BLOCKED") => mpParsed = "NotMergeable"
            /\ (base # "Conflict" /\ mpMergeStateStatus = "BEHIND") => mpParsed = "Behind"
            /\ (base # "Conflict" /\ mpMergeStateStatus \notin {"BLOCKED", "BEHIND"})
                  => mpParsed = base

\* conflict wins over blocked
C14_Witness ==
    /\ "mergeability" \in mpDone
    /\ mpMergeability = "CONFLICTING"
    /\ mpMergeStateStatus = "BLOCKED"
    /\ mpParsed = "Conflict"

----------------------------------------------------------------------------
(* getEnterpriseAvatarUrl, replaceAvatarUrl, enterpriseAvatarQueue,
   enterpriseAvatarCache

   A step is what runs between two suspensions of the single thread: the
   synchronous start of a call up to its first await, the handler of a
   settled request, the end of a queue job, the continuation of an await. *)

\* new PQueue({concurrency: 3})
QueueConcurrency == 3

Keys == 1..NumKeys

\* what getEnterpriseAvatarUrl makes of avatarUrl: "static" (data: or
\* assets.<host>: returned as it is), "proxied" (avatars.<host>: fetched under
\* a cache key), "other" (undefined, no enterprise uri, or another authority:
\* nothing is returned)
UrlKinds == {"static", "proxied", "other"}

\* the users handed to replaceAvatarUrl: a team, an account without email,
\* an account with email, the ghost account (login ""). A call reads its user
\* after the await of getEnterpriseAvatarUrl, and "unread" stands for the user
\* of a call that has not come that far.
Users ==
    { [kind |-> "team", email |-> "undefined"],
      [kind |-> "account", email |-> "undefined"],
      [kind |-> "account", email |-> "e"],
      [kind |-> "ghost", email |-> "undefined"] }

NewCall ==
    [pc |-> "awaitAvatar", urlKind |-> "other", user |-> "unread", email |-> "undefined",
     avatarUrl |-> "undefined", fetch |-> 0, fetchFailed |-> FALSE, outcome |-> "pending"]

\* p-queue's pending count: jobs started and not yet finished
pendingCount(fetches) ==
    Cardinality({f \in DOMAIN fetches : fetches[f].status \in {"inflight", "answered_ok", "answered_fail"}})

\* doesConcurrentAllowAnother
canStart_Unbounded(fetches) == TRUE

canStart(fetches) == pendingCount(fetches) < QueueConcurrency

\* cacheKey in enterpriseAvatarCache
inCache_Never(cache, key) == FALSE

inCache(cache, key) == cache[key] # 0

\* the rejection handler of the request: delete enterpriseAvatarCache[cacheKey]
onFetchFailure_KeepEntry(cache, key) == cache

onFetchFailure(cache, key) == [cache EXCEPT ![key] = 0]

\* generateGravatarUrl(md5(email)): undefined when isGravatarEnabled() is
\* false, which reads the configuration at each call
generateGravatarUrl(email, enabled) == IF enabled THEN "gravatar" ELSE "undefined"

InitAvatars ==
    /\ PrIdle
    /\ NcIdle
    /\ TlIdle
    /\ CmIdle
    /\ MpIdle
    /\ RpIdle
    /\ avCache = [k \in Keys |-> 0]
    /\ avFetch = <<>>
    /\ avQueue = <<>>
    /\ avCall = EmptyBag

AvOthersUnchanged == UNCHANGED <<prVars, ncVars, tlVars, cmVars, mpVars, rpVars>>

\* a call goes from one suspension to the next
resume(calls, old, new) == (calls (-) SetToBag({old})) (+) SetToBag({new})

\* replaceAvatarUrl(user, octokit) up to the first suspension: avatarUrl is
\* cleared, getEnterpriseAvatarUrl runs up to `await enterpriseAvatarCache[cacheKey]`
\* (for a proxied url: a missing entry is created and its task added to the
\* queue, which starts it at once when the queue allows) or returns.
\* Keys are interchangeable, so a key not fetched before is the lowest such key.
ReplaceAvatarUrlCall(urlKind, key) ==
    /\ BagCardinality(avCall) < MaxCalls
    /\ urlKind = "proxied" =>
          /\ key \in Keys
          /\ \A k \in 1..(key - 1) : \E f \in DOMAIN avFetch : avFetch[f].key = k
    /\ urlKind # "proxied" => key = 0
    /\ LET started == [NewCall EXCEPT !.urlKind = urlKind]
       IN  IF urlKind = "proxied" /\ ~inCache(avCache, key)
           THEN LET f == Len(avFetch) + 1
                    startNow == canStart(avFetch)
                IN  /\ avFetch' = Append(avFetch,
                            [key |-> key, status |-> IF startNow THEN "inflight" ELSE "queued"])
                    /\ avQueue' = IF startNow THEN avQueue ELSE Append(avQueue, f)
                    /\ avCache' = [avCache EXCEPT ![key] = f]
                    /\ avCall' = avCall (+) SetToBag({[started EXCEPT !.fetch = f]})
           ELSE /\ avCall' = avCall (+) SetToBag({
                        [started EXCEPT !.fetch = IF urlKind = "proxied" THEN avCache[key] ELSE 0]})
                /\ UNCHANGED <<avFetch, avQueue, avCache>>
    /\ AvOthersUnchanged

\* a promise job is waiting: the end of a queue job whose request has been
\* answered, or the continuation of a call whose awaited promise is settled.
\* The event loop runs every promise job before it delivers the next answer
\* of the network.
promiseJobPending(fetches, calls) ==
    \/ \E f \in DOMAIN fetches : fetches[f].status \in {"answered_ok", "answered_fail"}
    \/ \E call \in BagToSet(calls) :
          /\ call.pc = "awaitAvatar"
          /\ call.fetch # 0 => fetches[call.fetch].status \in {"resolved_ok", "resolved_void"}

\* the request of task f is answered: the fulfilment handler builds the data
\* uri, the rejection handler deletes the cache entry of the key
RequestSettles(f, ok) ==
    /\ ~promiseJobPending(avFetch, avCall)
    /\ f \in DOMAIN avFetch
    /\ avFetch[f].status = "inflight"
    /\ avFetch' = [avFetch EXCEPT ![f].status = IF ok THEN "answered_ok" ELSE "answered_fail"]
    /\ avCache' = IF ok THEN avCache ELSE onFetchFailure(avCache, avFetch[f].key)
    /\ UNCHANGED <<avQueue, avCall>>
    /\ AvOthersUnchanged

\* the queue job of task f ends: the promise returned by add is resolved with
\* the handler's value, and the queue starts its oldest waiting task
QueueJobDone(f) ==
    /\ f \in DOMAIN avFetch
    /\ avFetch[f].status \in {"answered_ok", "answered_fail"}
    /\ LET done == [avFetch EXCEPT ![f].status =
                        IF avFetch[f].status = "answered_ok" THEN "resolved_ok" ELSE "resolved_void"]
       IN  IF avQueue # <<>> /\ canStart(done)
           THEN /\ avFetch' = [done EXCEPT ![Head(avQueue)].status = "inflight"]
                /\ avQueue' = Tail(avQueue)
           ELSE /\ avFetch' = done
                /\ UNCHANGED avQueue
    /\ UNCHANGED <<avCache, avCall>>
    /\ AvOthersUnchanged

\* the value getEnterpriseAvatarUrl returns to its call
enterpriseAvatarUrl(call, fetches) ==
    IF call.urlKind = "static" THEN "orig"
    ELSE IF call.urlKind = "proxied" /\ fetches[call.fetch].status = "resolved_ok"
         THEN "data"
    ELSE "undefined"

\* the end of a call: the promise of replaceAvatarUrl is settled and the call
\* holds the user it leaves
settled(call, outcome) ==
    [call EXCEPT !.pc = "done", !.urlKind = "other", !.fetch = 0, !.outcome = outcome]

\* replaceAvatarUrl after `await getEnterpriseAvatarUrl(...)`, up to the await
\* of the email lookup or to its end; user is what the call finds in its
\* argument when there is no enterprise avatar
AvatarAwaited(call, user, enabled) ==
    /\ call \in BagToSet(avCall)
    /\ call.pc = "awaitAvatar"
    /\ call.fetch # 0 => avFetch[call.fetch].status \in {"resolved_ok", "resolved_void"}
    /\ LET url  == enterpriseAvatarUrl(call, avFetch)
           read == [call EXCEPT !.fetchFailed = (call.urlKind = "proxied"), !.user = user.kind,
                                !.email = user.email]
       IN  avCall' = resume(avCall, call,
              IF url # "undefined"
              THEN settled([call EXCEPT !.avatarUrl = url], "fulfilled")
              ELSE IF user.kind = "team"
              THEN settled(read, "fulfilled")
              ELSE IF read.email = "undefined" /\ user.kind # "ghost"
              THEN [read EXCEPT !.pc = "awaitEmail", !.urlKind = "other", !.fetch = 0]
              ELSE IF read.email = "undefined"
              THEN settled(read, "fulfilled")
              ELSE settled([read EXCEPT !.avatarUrl = generateGravatarUrl(read.email, enabled)],
                           "fulfilled"))
    /\ UNCHANGED <<avCache, avFetch, avQueue>>
    /\ AvOthersUnchanged

\* what the catch around the email lookup leaves: the call goes on
onEmailLookupError_Rethrow(call) == settled(call, "rejected")

onEmailLookupError(call) == settled(call, "fulfilled")

\* users.getByUsername is answered: with an email, with email null, or with
\* an error; then the gravatar url is generated when there is an email
EmailLookupSettles(call, answer, enabled) ==
    /\ ~promiseJobPending(avFetch, avCall)
    /\ call \in BagToSet(avCall)
    /\ call.pc = "awaitEmail"
    /\ avCall' = resume(avCall, call,
              IF answer = "error" THEN onEmailLookupError(call)
              ELSE IF answer = "null"
              THEN settled(call, "fulfilled")
              ELSE settled([call EXCEPT !.email = "e",
                                        !.avatarUrl = generateGravatarUrl("e", enabled)],
                           "fulfilled"))
    /\ UNCHANGED <<avCache, avFetch, avQueue>>
    /\ AvOthersUnchanged

NextAvatars ==
    \/ \E urlKind \in UrlKinds, key \in 0..NumKeys : ReplaceAvatarUrlCall(urlKind, key)
    \/ \E f \in DOMAIN avFetch, ok \in BOOLEAN : RequestSettles(f, ok)
    \/ \E f \in DOMAIN avFetch : QueueJobDone(f)
    \/ \E call \in BagToSet(avCall), user \in Users, enabled \in BOOLEAN :
          AvatarAwaited(call, user, enabled)
    \/ \E call \in BagToSet(avCall), answer \in {"email", "null", "error"}, enabled \in BOOLEAN :
          EmailLookupSettles(call, answer, enabled)

SpecAvatars == InitAvatars /\ [][NextAvatars]_vars

\* the tasks whose request has been sent and not answered
InFlight == {f \in DOMAIN avFetch : avFetch[f].status = "inflight"}

\* the tasks of key k, oldest first by number
FetchesOf(k) == {f \in DOMAIN avFetch : avFetch[f].key = k}

Failed(f) == avFetch[f].status \in {"answered_fail", "resolved_void"}

\* C15: in every reachable state at most 3 enterprise avatar requests are in
\* flight, however many replaceAvatarUrl calls are running.
C15_AtMostThreeInFlight == Cardinality(InFlight) <= 3

\* three requests in flight and a fourth task waiting in the queue
C15_Witness == Cardinality(InFlight) = 3 /\ avQueue # <<>>

\* C16: a task of a key is created only after every earlier task of that key
\* has failed; so a key never has two tasks queued or in flight, and no task
\* follows one that succeeded.
C16_OneFetchPerKey ==
    \A f, g \in DOMAIN avFetch :
        f < g /\ avFetch[f].key = avFetch[g].key => Failed(f)

\* two calls wait for the one request of their key while it is in flight, and
\* a call of a key whose request succeeded before has been served without a
\* second request
C16_Witness ==
    /\ \E call \in BagToSet(avCall) :
          /\ call.pc = "awaitAvatar"
          /\ call.fetch \in InFlight
          /\ CopiesIn(call, avCall) >= 2
    /\ \E k \in Keys :
          /\ Cardinality(FetchesOf(k)) = 1
          /\ \A f \in FetchesOf(k) : avFetch[f].status = "resolved_ok"
    /\ \E call \in BagToSet(avCall) : call.pc = "done" /\ call.avatarUrl = "data"

\* the cache holds, for a key, the newest task of that key, and never one
\* that failed
CacheHoldsLiveFetch ==
    \A k \in Keys :
        avCache[k] # 0 =>
            /\ avCache[k] \in FetchesOf(k)
            /\ \A f \in FetchesOf(k) : f <= avCache[k]
            /\ ~Failed(avCache[k])

\* a step that removes the entry of a key is the failure of the request that
\* entry stands for, and no step replaces an entry by another
EntryRemovedByOwnFailure ==
    \A k \in Keys :
        avCache[k] # 0 /\ avCache'[k] # avCache[k] =>
            /\ avCache'[k] = 0
            /\ avFetch[avCache[k]].status = "inflight"
            /\ avFetch'[avCache[k]].status = "answered_fail"

\* C17: the entry of a failed request is removed (so that the next call of
\* the key creates a new task), and an entry is removed only by the failure of
\* its own request, never by that of an earlier task of the key or of another key.
C17_FailureEvictsOwnEntry == []CacheHoldsLiveFetch /\ [][EntryRemovedByOwnFailure]_vars

\* a key whose first request failed has a second task, which the cache holds,
\* while the request of another key has failed as well
C17_Witness ==
    \E k \in Keys :
        /\ \E f, g \in FetchesOf(k) : f < g /\ Failed(f) /\ avCache[k] = g
        /\ \E j \in Keys \ {k} : \E f \in FetchesOf(j) : Failed(f)

----------------------------------------------------------------------------
(* restPaginate *)

\* result.data of a page
PageData == {<<>>, <<"a">>, <<"b">>, <<"a", "b">>}

\* result.headers.link: absent, or a string with the rel values it names
\* (the empty string names none)
LinkHeaders ==
    {[present |-> FALSE, rels |-> {}]}
        \cup {[present |-> TRUE, rels |-> r] : r \in SUBSET {"prev", "next"}}

\* a test that takes any non-empty link header for a next page
hasNextPage_AnyLink(link) == link.present /\ link.rels # {}

\* !!result.headers.link && result.headers.link.indexOf('rel="next"') > -1
hasNextPage(link) == link.present /\ link.rels # {} /\ "next" \in link.rels

InitPaginate ==
    /\ PrIdle
    /\ NcIdle
    /\ TlIdle
    /\ CmIdle
    /\ MpIdle
    /\ AvIdle
    /\ rpPage = 1
    /\ rpResults = <<>>
    /\ rpRequests = <<>>
    /\ rpResponses = <<>>
    /\ rpPc = "ready"
    /\ rpReturn = <<>>

RpOthersUnchanged == UNCHANGED <<prVars, ncVars, tlVars, cmVars, mpVars, avVars>>

\* restPaginate(request, variables) up to the first await: page = 1,
\* results = [], request({..., per_page: 100, page}) is called
RestPaginateCall ==
    /\ rpPc = "ready"
    /\ rpPage' = 1
    /\ rpResults' = <<>>
    /\ rpRequests' = Append(rpRequests, 1)
    /\ rpPc' = "awaiting"
    /\ UNCHANGED <<rpResponses, rpReturn>>
    /\ RpOthersUnchanged

\* the awaited request is fulfilled: the data is appended, page is
\* incremented, and the loop either calls request for the next page or ends
\* and the call returns results. No server is asked for more than MaxPages
\* pages.
ResponseArrives(data, link) ==
    /\ rpPc = "awaiting"
    /\ hasNextPage(link) => rpPage < MaxPages
    /\ rpResponses' = Append(rpResponses, [data |-> data, link |-> link])
    /\ rpResults' = rpResults \o data
    /\ rpPage' = rpPage + 1
    /\ IF hasNextPage(link)
       THEN /\ rpRequests' = Append(rpRequests, rpPage + 1)
            /\ UNCHANGED <<rpPc, rpReturn>>
       ELSE /\ rpPc' = "returned"
            /\ rpReturn' = <<rpResults \o data>>
            /\ UNCHANGED rpRequests
    /\ RpOthersUnchanged

\* the awaited request is rejected: the await throws and the call is rejected
RequestRejected ==
    /\ rpPc = "awaiting"
    /\ rpPc' = "rejected"
    /\ UNCHANGED <<rpPage, rpResults, rpRequests, rpResponses, rpReturn>>
    /\ RpOthersUnchanged

NextPaginate ==
    \/ RestPaginateCall
    \/ \E data \in PageData, link \in LinkHeaders : ResponseArrives(data, link)
    \/ RequestRejected

SpecPaginate == InitPaginate /\ [][NextPaginate]_vars

RECURSIVE ConcatData(_, _)
ConcatData(responses, n) ==
    IF n = 0 THEN <<>> ELSE ConcatData(responses, n - 1) \o responses[n].data

HasNextLink(r) == r.link.present /\ "next" \in r.link.rels

\* C23: the requests are for pages 1, 2, 3, ... with at most one unanswered;
\* page n + 1 is requested only after the response of page n carried a
\* rel="next" link; a call that has started has requested page 1; the call
\* has returned exactly when some response lacks the next link, that
\* response is the last one, and the value is the data of all pages in page
\* order; a rejected call has returned nothing.
C23_SequentialPages ==
    /\ rpRequests = [n \in 1..Len(rpRequests) |-> n]
    /\ rpPc # "ready" => Len(rpRequests) >= 1
    /\ Len(rpRequests) - Len(rpResponses) \in {0, 1}
    /\ \A n \in 1..Len(rpRequests) : n > 1 => HasNextLink(rpResponses[n - 1])
    /\ \A n \in 1..Len(rpResponses) : ~HasNextLink(rpResponses[n]) => n = Len(rpResponses)
    /\ rpPc = "returned" <=> \E n \in 1..Len(rpResponses) : ~HasNextLink(rpResponses[n])
    /\ rpPc = "returned" =>
          /\ Len(rpRequests) = Len(rpResponses)
          /\ rpReturn = <<ConcatData(rpResponses, Len(rpResponses))>>
    /\ rpPc # "returned" => rpReturn = <<>>
    /\ rpPc = "awaiting" <=> Len(rpRequests) = Len(rpResponses) + 1 /\ rpPc # "rejected"

\* three pages were fetched, the last response carried a link header without
\* rel="next", and the pages' data came back in page order
C23_Witness ==
    /\ rpPc = "returned"
    /\ Len(rpResponses) = 3
    /\ rpResponses[3].link = [present |-> TRUE, rels |-> {"prev"}]
    /\ rpReturn = <<(<<"b">> \o <<"a", "b">>) \o <<"a">>>>

====
